---- MODULE Spec2Model ----
(***************************************************************************)
(* A model of generate-widget-reference.py: the one-shot pipeline          *)
(* (credential resolution, list request, pre-fetch exclusion, per-widget   *)
(* detail fetch loop, document assembly) and its three pure functions      *)
(* should_skip, format_control and format_widget.                          *)
(*                                                                         *)
(* Python str is a TLA+ string; startswith, endswith, `in`, slicing and    *)
(* join are computed on the characters (Len, SubSeq, \o).  The string      *)
(* literals of this language hold neither a backtick nor a non-ASCII       *)
(* character, so three characters of the script's templates are written    *)
(* with the stand-ins BT, EMDASH and MIDDOT below.                         *)
(*                                                                         *)
(* A JSON object is a record whose fields are the object's keys (a         *)
(* missing key is a missing field); an ordered mapping whose iteration     *)
(* order matters (controls, options, output_by_cat) is a sequence of       *)
(* entries in insertion order.  A JSON value that is not an object where   *)
(* the script expects one is the record JsonArray.                         *)
(***************************************************************************)
EXTENDS Integers, Sequences, FiniteSets, TLC

VARIABLES pc, argv, env, listResp, server, site_url, username, password,
          requests, widgets, practical, i, output_by_cat, stderr, md,
          stdout, exit_code, call, ret

vars == <<pc, argv, env, listResp, server, site_url, username, password,
          requests, widgets, practical, i, output_by_cat, stderr, md,
          stdout, exit_code, call, ret>>

pipelineVars == <<argv, env, listResp, server, site_url, username, password,
                  requests, widgets, practical, i, output_by_cat, stderr, md,
                  stdout, exit_code>>

-----------------------------------------------------------------------------
(* Bounds of the model.                                                    *)

\* Largest number of identifiers in a list response of the main pipeline.
MaxWidgets == 3
\* Largest list response explored together with every credential source.
MaxCredWidgets == 1
\* Largest number of tokens concatenated into a control key.
MaxTokens == 3
\* Largest number of non-empty option keys of a control.
MaxOptions == 8
\* Largest number of controls in a widget detail given to format_widget.
MaxControls == 3
\* Size of the long worklist of the progress-reporting runs.
BigList == 21
\* Largest number of failing widgets in a long worklist.
MaxFaulty == 1

-----------------------------------------------------------------------------
(* Strings.                                                                *)

BT == "'"       \* stands for the backtick, U+0060
EMDASH == "--"  \* stands for the em dash, U+2014
MIDDOT == "^"   \* stands for the middle dot, U+00B7

\* The characters of the identifiers in use, in code point order.
CodePoints == " #'()*+,-./0123456789:ABCDEFGHIJKLMNOPQRSTUVWXYZ^_abcdefghijklmnopqrstuvwxyz|"

\* The rank of each character in code point order.
OrdTable ==
    [c \in {SubSeq(CodePoints, k, k) : k \in 1..Len(CodePoints)} |->
        CHOOSE k \in 1..Len(CodePoints) : SubSeq(CodePoints, k, k) = c]

Ord(c) == OrdTable[c]

StartsWith(s, p) == Len(p) <= Len(s) /\ SubSeq(s, 1, Len(p)) = p

EndsWith(s, p) == Len(p) <= Len(s) /\ SubSeq(s, Len(s) - Len(p) + 1, Len(s)) = p

Contains(s, p) == \E k \in 1..(Len(s) - Len(p) + 1) : SubSeq(s, k, k + Len(p) - 1) = p

RECURSIVE RStrip(_, _)
RStrip(s, c) == IF Len(s) > 0 /\ SubSeq(s, Len(s), Len(s)) = c
                THEN RStrip(SubSeq(s, 1, Len(s) - 1), c)
                ELSE s

RECURSIVE StrLessFrom(_, _, _)
StrLessFrom(a, b, k) ==
    IF k > Len(b) THEN FALSE
    ELSE IF k > Len(a) THEN TRUE
    ELSE LET x == Ord(SubSeq(a, k, k))
             y == Ord(SubSeq(b, k, k))
         IN IF x < y THEN TRUE
            ELSE IF x > y THEN FALSE
            ELSE StrLessFrom(a, b, k + 1)

\* a < b on Python str: lexicographic by code point.
StrLess(a, b) == StrLessFrom(a, b, 1)

RECURSIVE Join(_, _)
Join(parts, sep) == IF Len(parts) = 0 THEN ""
                    ELSE IF Len(parts) = 1 THEN parts[1]
                    ELSE parts[1] \o sep \o Join(Tail(parts), sep)

RECURSIVE Str(_)
\* str(n) of a non-negative int, as an f-string renders it.
Str(n) == IF n < 10 THEN SubSeq("0123456789", n + 1, n + 1)
          ELSE Str(n \div 10) \o SubSeq("0123456789", (n % 10) + 1, (n % 10) + 1)

RECURSIVE InsertSorted(_, _)
InsertSorted(s, x) == IF Len(s) = 0 THEN <<x>>
                      ELSE IF StrLess(x, Head(s)) THEN <<x>> \o s
                      ELSE <<Head(s)>> \o InsertSorted(Tail(s), x)

RECURSIVE SortedStrings(_)
\* sorted(xs) of a list of str.
SortedStrings(xs) == IF Len(xs) = 0 THEN <<>>
                     ELSE InsertSorted(SortedStrings(SubSeq(xs, 1, Len(xs) - 1)), xs[Len(xs)])

RECURSIVE SetToSortedSeq(_)
SetToSortedSeq(S) == IF S = {} THEN <<>>
                     ELSE LET x == CHOOSE y \in S : \A z \in S : z = y \/ StrLess(y, z)
                          IN <<x>> \o SetToSortedSeq(S \ {x})

RECURSIVE Reverse(_)
Reverse(s) == IF Len(s) = 0 THEN <<>> ELSE Reverse(Tail(s)) \o <<Head(s)>>

Range(s) == {s[k] : k \in 1..Len(s)}

RECURSIVE SmallSubsets(_, _)
\* The subsets of S with at most n elements.
SmallSubsets(S, n) ==
    IF n = 0 THEN {{}}
    ELSE SmallSubsets(S, n - 1) \cup {T \cup {x} : T \in SmallSubsets(S, n - 1), x \in S}

\* A JSON value that is not an object.
JsonArray == [isarray |-> TRUE]

IsMapping(v) == "isarray" \notin DOMAIN v

-----------------------------------------------------------------------------
(* The control filter: should_skip.                                        *)

SKIP_CONTAINS ==
    << "_font_family", "_font_size", "_font_weight", "_text_transform", "_font_style",
       "_text_decoration", "_line_height", "_letter_spacing", "_word_spacing",
       "_text_shadow",
       "_box_shadow",
       "_color_stop", "_color_b", "_gradient_type", "_gradient_angle", "_gradient_position",
       "_xpos", "_ypos", "_attachment", "_repeat", "_bg_width",
       "_slideshow_", "_video_link", "_video_start", "_video_end", "_video_fallback",
       "_play_once", "_privacy_mode", "_ken_burns",
       "_blur", "_brightness", "_contrast", "_saturate", "_hue",
       "_stroke_color" >>

SKIP_SUFFIXES == << "_tablet", "_mobile", "_widescreen", "_laptop", "_tablet_extra", "_mobile_extra" >>

SKIP_TYPES == { "hidden", "section", "tabs", "tab", "alert", "divider", "raw_html",
                "deprecated_notice", "heading" }

SKIP_EXACT == { "background_position", "background_size", "background_image",
                "background_video", "background_color_stop" }

HOVER_PARTS == << "_position", "_size", "_image", "_video", "_slideshow" >>

\* ctrl.get("type") in SKIP_TYPES: a missing type is None, which is in no set.
TypeSkipped(ctrl) == "type" \in DOMAIN ctrl /\ ctrl.type \in SKIP_TYPES

\* The for loop over SKIP_CONTAINS from pattern j on: the first pattern found
\* in the key returns, "keep" for a key ending in _typography or _type and
\* "skip" otherwise; "none" when the loop ends without a match.
RECURSIVE SubPropertyRule(_, _)
SubPropertyRule(key, j) ==
    IF j > Len(SKIP_CONTAINS) THEN "none"
    ELSE IF Contains(key, SKIP_CONTAINS[j])
         THEN IF EndsWith(key, "_typography") \/ EndsWith(key, "_type")
              THEN "keep"
              ELSE "skip"
    ELSE SubPropertyRule(key, j + 1)

HoverRule(key) ==
    /\ Contains(key, "hover_")
    /\ \E k \in 1..Len(HOVER_PARTS) : Contains(key, HOVER_PARTS[k])

CssFilterRule(key) == Contains(key, "css_filter") /\ ~EndsWith(key, "css_filter")

\* The same chain with the hover and css_filter rules tried before the
\* sub-property loop.
ShouldSkipLateCarveOut(key, ctrl) ==
    IF StartsWith(key, "_") THEN TRUE
    ELSE IF TypeSkipped(ctrl) THEN TRUE
    ELSE IF \E k \in 1..Len(SKIP_SUFFIXES) : EndsWith(key, SKIP_SUFFIXES[k]) THEN TRUE
    ELSE IF key \in SKIP_EXACT THEN TRUE
    ELSE IF HoverRule(key) THEN TRUE
    ELSE IF CssFilterRule(key) THEN TRUE
    ELSE SubPropertyRule(key, 1) = "skip"

ShouldSkip(key, ctrl) ==
    IF StartsWith(key, "_") THEN TRUE
    ELSE IF TypeSkipped(ctrl) THEN TRUE
    ELSE IF \E k \in 1..Len(SKIP_SUFFIXES) : EndsWith(key, SKIP_SUFFIXES[k]) THEN TRUE
    ELSE IF key \in SKIP_EXACT THEN TRUE
    ELSE LET sub == SubPropertyRule(key, 1)
         IN IF sub = "keep" THEN FALSE
            ELSE IF sub = "skip" THEN TRUE
            ELSE IF HoverRule(key) THEN TRUE
            ELSE IF CssFilterRule(key) THEN TRUE
            ELSE FALSE

-----------------------------------------------------------------------------
(* The control formatter: format_control.                                  *)
(*                                                                         *)
(* A control descriptor is a record with the optional fields type,         *)
(* default, options, section, tab and label.  options is [keys |-> ks]     *)
(* for a mapping with the keys ks in order, or [list |-> xs] for a         *)
(* sequence.  default is [str |-> s] for a string or [dict |-> d] for a    *)
(* mapping d with the optional fields size (an int) and unit.              *)

CType(ctrl) == IF "type" \in DOMAIN ctrl THEN ctrl.type ELSE "unknown"

\* options = ctrl.get("options", {})
Options(ctrl) == IF "options" \in DOMAIN ctrl THEN ctrl.options ELSE [keys |-> <<>>]

IsList(options) == "list" \in DOMAIN options

\* Truth value of options: an empty mapping or sequence is false.
Truthy(options) == IF IsList(options) THEN Len(options.list) > 0 ELSE Len(options.keys) > 0

\* [k for k in options.keys() if k]
NonEmptyKeys(ks) == SelectSeq(ks, LAMBDA k : k # "")

\* The select branch, truncating as soon as there are more than 5 keys.
SelectTextAt5(opt_keys) ==
    IF Len(opt_keys) = 0 THEN ""
    ELSE IF Len(opt_keys) <= 5 THEN " (" \o Join(opt_keys, ", ") \o ")"
    ELSE " (" \o Join(SubSeq(opt_keys, 1, 5), ", ") \o ", +" \o Str(Len(opt_keys) - 5) \o ")"

\* Lines 105-109: the parenthetical of a select control with the non-empty
\* option keys opt_keys.
SelectText(opt_keys) ==
    IF Len(opt_keys) = 0 THEN ""
    ELSE IF Len(opt_keys) <= 6 THEN " (" \o Join(opt_keys, ", ") \o ")"
    ELSE " (" \o Join(SubSeq(opt_keys, 1, 5), ", ") \o ", +" \o Str(Len(opt_keys) - 5) \o ")"

\* default and isinstance(default, dict) and default.get("size")
SliderHasSize(ctrl) ==
    /\ "default" \in DOMAIN ctrl
    /\ "dict" \in DOMAIN ctrl.default
    /\ "size" \in DOMAIN ctrl.default.dict
    /\ ctrl.default.dict.size # 0

\* default and isinstance(default, str) and len(default) < 30
ShortStringDefault(ctrl) ==
    /\ "default" \in DOMAIN ctrl
    /\ "str" \in DOMAIN ctrl.default
    /\ ctrl.default.str # ""
    /\ Len(ctrl.default.str) < 30

\* The types of lines 124-135, each rendered as its own name.
FIXED_LABEL_TYPES == {"dimensions", "media", "gallery", "icons", "url", "wysiwyg"}

FormatControl(key, ctrl) ==
    LET ctype == CType(ctrl)
        options == Options(ctrl)
        result == BT \o key \o BT
    IN IF IsList(options) THEN result \o " (" \o ctype \o ")"
       ELSE IF ctype = "select" /\ Truthy(options)
            THEN result \o SelectText(NonEmptyKeys(options.keys))
       ELSE IF ctype = "choose" THEN result \o " (" \o Join(options.keys, ", ") \o ")"
       ELSE IF ctype = "repeater" THEN result \o " (repeater)"
       ELSE IF ctype = "switcher" THEN result \o " (on/off)"
       ELSE IF ctype = "color" THEN result \o " (color)"
       ELSE IF ctype = "slider"
            THEN IF SliderHasSize(ctrl)
                 THEN result \o " (slider, default: " \o Str(ctrl.default.dict.size)
                          \o (IF "unit" \in DOMAIN ctrl.default.dict
                              THEN ctrl.default.dict.unit ELSE "") \o ")"
                 ELSE result \o " (slider)"
       ELSE IF ctype \in FIXED_LABEL_TYPES THEN result \o " (" \o ctype \o ")"
       ELSE IF ctype \in {"text", "textarea", "number"}
            THEN IF ShortStringDefault(ctrl)
                 THEN result \o " (" \o ctype \o ", default: \"" \o ctrl.default.str \o "\")"
                 ELSE result \o " (" \o ctype \o ")"
       ELSE result \o " (" \o ctype \o ")"

-----------------------------------------------------------------------------
(* Grouping and the widget block: format_widget.                           *)
(*                                                                         *)
(* detail.controls is the ordered mapping of control key to descriptor, a  *)
(* sequence of [key |-> k, ctrl |-> c] with distinct keys.                  *)

Controls(detail) == IF "controls" \in DOMAIN detail THEN detail.controls ELSE <<>>

IsSection(ctrl) == "type" \in DOMAIN ctrl /\ ctrl.type = "section"

\* The entries of section_labels / section_tabs: the section controls.
SectionEntries(controls) ==
    {k \in 1..Len(controls) : IsSection(controls[k].ctrl)}

HasSection(controls, section) ==
    \E k \in SectionEntries(controls) : controls[k].key = section

SectionCtrl(controls, section) ==
    controls[CHOOSE k \in SectionEntries(controls) : controls[k].key = section].ctrl

\* section_labels.get(section, section)
SectionLabel(controls, section) ==
    IF HasSection(controls, section)
    THEN LET c == SectionCtrl(controls, section)
         IN IF "label" \in DOMAIN c THEN c.label ELSE section
    ELSE section

\* section_tabs.get(section, "content")
SectionTab(controls, section) ==
    IF HasSection(controls, section)
    THEN LET c == SectionCtrl(controls, section)
         IN IF "tab" \in DOMAIN c THEN c.tab ELSE "content"
    ELSE "content"

\* section = ctrl.get("section", "other")
SectionOf(ctrl) == IF "section" \in DOMAIN ctrl THEN ctrl.section ELSE "other"

\* tab = ctrl.get("tab", section_tabs.get(section, "content"))
TabOf(controls, ctrl) ==
    IF "tab" \in DOMAIN ctrl THEN ctrl.tab ELSE SectionTab(controls, SectionOf(ctrl))

\* group_key = f"{tab}|{section}"
GroupKey(tab, section) == tab \o "|" \o section

\* The grouping loop from control k on; grouped is the ordered mapping of
\* group_key to group, a sequence of [gkey, label, tab, controls].
RECURSIVE GroupFrom(_, _, _)
GroupFrom(controls, k, grouped) ==
    IF k > Len(controls) THEN grouped
    ELSE LET key == controls[k].key
             ctrl == controls[k].ctrl
             section == SectionOf(ctrl)
             tab == TabOf(controls, ctrl)
             gkey == GroupKey(tab, section)
             known == \E g \in 1..Len(grouped) : grouped[g].gkey = gkey
             withGroup == IF known THEN grouped
                          ELSE Append(grouped, [gkey |-> gkey,
                                                label |-> SectionLabel(controls, section),
                                                tab |-> tab,
                                                controls |-> <<>>])
             added == [g \in 1..Len(withGroup) |->
                          IF withGroup[g].gkey = gkey
                          THEN [withGroup[g] EXCEPT !.controls = Append(@, controls[k])]
                          ELSE withGroup[g]]
         IN IF ShouldSkip(key, ctrl) THEN GroupFrom(controls, k + 1, grouped)
            ELSE IF tab = "advanced" THEN GroupFrom(controls, k + 1, grouped)
            ELSE GroupFrom(controls, k + 1, added)

Grouped(controls) == GroupFrom(controls, 1, <<>>)

\* One bullet line of a group under tab_name.
BulletLine(group, tab_name) ==
    "- **" \o group.label \o "** (" \o tab_name \o "): "
        \o Join([c \in 1..Len(group.controls) |->
                    FormatControl(group.controls[c].key, group.controls[c].ctrl)],
                " " \o MIDDOT \o " ")

\* The bullet lines of the groups whose tab is tab_name, in insertion order.
TabLines(grouped, tab_name) ==
    LET tab_groups == SelectSeq(grouped, LAMBDA g : g.tab = tab_name)
    IN [g \in 1..Len(tab_groups) |-> BulletLine(tab_groups[g], tab_name)]

TAB_ORDER == <<"content", "style">>

\* The lines list of format_widget; the function returns them joined by a
\* line break.
WidgetLines(name, detail) ==
    LET title == IF "title" \in DOMAIN detail THEN detail.title ELSE name
        keywords == IF "keywords" \in DOMAIN detail THEN detail.keywords ELSE <<>>
        grouped == Grouped(Controls(detail))
    IN <<"### " \o BT \o name \o BT \o " " \o EMDASH \o " " \o title>>
       \o (IF Len(keywords) > 0 THEN <<"*" \o Join(keywords, ", ") \o "*">> ELSE <<>>)
       \o TabLines(grouped, TAB_ORDER[1])
       \o TabLines(grouped, TAB_ORDER[2])

\* format_widget raises (ctrl.get on a value that is no mapping) when a
\* control descriptor is not an object; otherwise it returns the block.
FormatWidget(name, detail) ==
    IF \E k \in 1..Len(Controls(detail)) : ~IsMapping(Controls(detail)[k].ctrl)
    THEN [ok |-> FALSE, error |-> "'list' object has no attribute 'get'"]
    ELSE [ok |-> TRUE, text |-> Join(WidgetLines(name, detail), "\n")]

-----------------------------------------------------------------------------
(* The pipeline: module-level code.                                        *)

USAGE == << "Usage: python generate-widget-reference.py <site-url> <username> <app-password>",
            "   Or set WORDPRESS_API_URL, WORDPRESS_USERNAME, WORDPRESS_PASSWORD env vars" >>

\* os.environ.get(name, default)
EnvGet(e, name, default) == IF name \in DOMAIN e THEN e[name] ELSE default

\* Lines 15-24.  argv[1] is sys.argv[0], the script's own name.
Resolve ==
    /\ pc = "resolve"
    /\ IF Len(argv) = 4
       THEN /\ site_url' = argv[2]
            /\ username' = argv[3]
            /\ password' = argv[4]
            /\ pc' = "list"
            /\ UNCHANGED <<stderr, exit_code>>
       ELSE IF EnvGet(env, "WORDPRESS_API_URL", "") # ""
       THEN /\ site_url' = env["WORDPRESS_API_URL"]
            /\ username' = EnvGet(env, "WORDPRESS_USERNAME", "")
            /\ password' = EnvGet(env, "WORDPRESS_PASSWORD",
                                  EnvGet(env, "WORDPRESS_APP_PASSWORD", ""))
            /\ pc' = "list"
            /\ UNCHANGED <<stderr, exit_code>>
       ELSE /\ stderr' = stderr \o USAGE
            /\ exit_code' = 1
            /\ pc' = "exited"
            /\ UNCHANGED <<site_url, username, password>>
    /\ UNCHANGED <<argv, env, listResp, server, requests, widgets, practical, i,
                   output_by_cat, md, stdout, call, ret>>

\* base = f"{site_url.rstrip('/')}/wp-json/communitytech/v1/elementor/widgets"
Base == RStrip(site_url, "/") \o "/wp-json/communitytech/v1/elementor/widgets"

\* A GET request.  Its Authorization header is "Basic " and the base64
\* encoding of userpass; the encoding is injective and is not computed.
Request(url) == [url |-> url, userpass |-> username \o ":" \o password]

\* Lines 26-33.  A failed request, a body that is not JSON or a body
\* without "widgets" raises outside any try block: the process ends with a
\* traceback.
ListWidgets ==
    /\ pc = "list"
    /\ requests' = Append(requests, Request(Base))
    /\ IF listResp.kind = "ok"
       THEN /\ widgets' = listResp.widgets
            /\ pc' = "filter"
            /\ UNCHANGED <<stderr, exit_code>>
       ELSE /\ stderr' = Append(stderr, "Traceback (most recent call last): " \o listResp.kind)
            /\ exit_code' = 1
            /\ pc' = "crashed"
            /\ UNCHANGED widgets
    /\ UNCHANGED <<argv, env, listResp, server, site_url, username, password,
                   practical, i, output_by_cat, md, stdout, call, ret>>

skip_names == {"common-base", "common", "common-optimized", "inner-section", "e-component"}

skip_prefixes == <<"wp-widget-">>

\* The exclusion with the prefix rule left out.
IsPracticalExactOnly(name) == name \notin skip_names

\* Lines 40-44: the identifier is kept.
IsPractical(name) ==
    /\ name \notin skip_names
    /\ ~\E k \in 1..Len(skip_prefixes) : StartsWith(name, skip_prefixes[k])

\* Lines 38-46.
BuildWorklist ==
    /\ pc = "filter"
    /\ practical' = SelectSeq(widgets, IsPractical)
    /\ stderr' = Append(stderr, "Fetching " \o Str(Len(practical')) \o " widgets...")
    /\ i' = 0
    /\ output_by_cat' = <<>>
    /\ pc' = "loop"
    /\ UNCHANGED <<argv, env, listResp, server, site_url, username, password,
                   requests, widgets, md, stdout, exit_code, call, ret>>

category_order == <<"basic", "general", "pro-elements", "theme-elements",
                    "theme-elements-single", "theme-elements-archive", "link-in-bio">>

\* The worklist in the order the list response gave it.
WorklistUnsorted(names) == names

\* sorted(practical), the order of the detail fetch loop.
Worklist(names) == SortedStrings(names)

\* The last entry of the category list instead of the first.
PrimaryCatLast(detail) ==
    IF "categories" \in DOMAIN detail
    THEN IF Len(detail.categories) > 0 THEN detail.categories[Len(detail.categories)]
         ELSE "uncategorized"
    ELSE "uncategorized"

\* Lines 202-203.
PrimaryCat(detail) ==
    IF "categories" \in DOMAIN detail
    THEN IF Len(detail.categories) > 0 THEN detail.categories[1] ELSE "uncategorized"
    ELSE "uncategorized"

Cats(out) == {out[k].cat : k \in 1..Len(out)}

\* Lines 204-205.
EnsureBucket(out, cat) ==
    IF cat \in Cats(out) THEN out ELSE Append(out, [cat |-> cat, blocks |-> <<>>])

\* Line 206: output_by_cat[cat].append(block)
AppendBlock(out, cat, block) ==
    [k \in 1..Len(out) |->
        IF out[k].cat = cat THEN [out[k] EXCEPT !.blocks = Append(@, block)] ELSE out[k]]

Blocks(out, cat) == out[CHOOSE k \in 1..Len(out) : out[k].cat = cat].blocks

\* Line 207.
ProgressDue(n) == n % 20 = 0

SkipLine(name, error) == "  SKIP " \o name \o ": " \o error

\* Lines 197-210: one iteration of the detail fetch loop, for the widget at
\* index i of the sorted worklist.
FetchWidget ==
    /\ pc = "loop"
    /\ i < Len(practical)
    /\ LET name == Worklist(practical)[i + 1]
           resp == server[name]
       IN /\ requests' = Append(requests, Request(Base \o "/" \o name))
          /\ IF resp.kind = "neterr"
             THEN /\ stderr' = Append(stderr, SkipLine(name, "<urlopen error>"))
                  /\ UNCHANGED output_by_cat
             ELSE IF resp.kind = "badjson"
             THEN /\ stderr' = Append(stderr, SkipLine(name, "Expecting value"))
                  /\ UNCHANGED output_by_cat
             ELSE IF ~IsMapping(resp.detail)
             THEN /\ stderr' = Append(stderr,
                                      SkipLine(name, "'list' object has no attribute 'get'"))
                  /\ UNCHANGED output_by_cat
             ELSE LET primary_cat == PrimaryCat(resp.detail)
                      bucketed == EnsureBucket(output_by_cat, primary_cat)
                      block == FormatWidget(name, resp.detail)
                  IN IF block.ok
                     THEN /\ output_by_cat' = AppendBlock(bucketed, primary_cat, block.text)
                          /\ stderr' = IF ProgressDue(i + 1)
                                       THEN Append(stderr, "  " \o Str(i + 1) \o "/"
                                                           \o Str(Len(practical)) \o "...")
                                       ELSE stderr
                     ELSE /\ output_by_cat' = bucketed
                          /\ stderr' = Append(stderr, SkipLine(name, block.error))
    /\ i' = i + 1
    /\ UNCHANGED <<pc, argv, env, listResp, server, site_url, username, password,
                   widgets, practical, md, stdout, exit_code, call, ret>>

\* Lines 213-226.
Preamble ==
    << "# Elementor Widget Reference",
       "",
       "Auto-generated from the CommunityTech Widget Registry API on thailand.thesilkworthproject.com.",
       "To regenerate: query " \o BT \o "GET /wp-json/communitytech/v1/elementor/widgets/<name>"
           \o BT \o " for each widget.",
       "",
       "## Usage Notes",
       "",
       "- **Colors**: always use " \o BT \o "__globals__" \o BT \o " references " \o EMDASH \o " "
           \o BT \o "\"__globals__\": {\"title_color\": \"globals/colors?id=primary\"}" \o BT,
       "- **Typography**: use " \o BT \o "__globals__" \o BT \o " " \o EMDASH \o " "
           \o BT \o "\"__globals__\": {\"typography_typography\": \"globals/typography?id=primary\"}" \o BT,
       "- **Advanced tab** (margins, padding, motion effects, custom CSS): identical for all widgets, not shown here.",
       "- **Responsive variants** (" \o BT \o "_tablet" \o BT \o ", " \o BT \o "_mobile" \o BT
           \o "): not shown " \o EMDASH \o " append suffix to any control key.",
       "- **Full schema**: " \o BT \o "GET /wp-json/communitytech/v1/elementor/widgets/<name>"
           \o BT \o " returns every control.",
       "",
       "---" >>

RECURSIVE BlockEntries(_)
\* Lines 234-236 and 244-246: each block, then an empty entry.
BlockEntries(blocks) ==
    IF Len(blocks) = 0 THEN <<>>
    ELSE <<Head(blocks), "">> \o BlockEntries(Tail(blocks))

\* Lines 231-236 and 241-246: the entries of one category section.
Section(out, cat) == <<"", "## " \o cat, "">> \o BlockEntries(Blocks(out, cat))

RECURSIVE Sections(_, _)
Sections(out, cats) ==
    IF Len(cats) = 0 THEN <<>>
    ELSE Section(out, Head(cats)) \o Sections(out, Tail(cats))

\* Lines 228-230: the categories of category_order that have a bucket.
PreferredCats(out) == SelectSeq(category_order, LAMBDA c : c \in Cats(out))

\* The remaining categories in the order their buckets were created.
OtherCatsUnsorted(out) ==
    SelectSeq([k \in 1..Len(out) |-> out[k].cat], LAMBDA c : c \notin Range(category_order))

\* Lines 238-240: sorted(output_by_cat.keys()) without those in category_order.
OtherCats(out) ==
    SelectSeq(SortedStrings([k \in 1..Len(out) |-> out[k].cat]),
              LAMBDA c : c \notin Range(category_order))

\* Lines 212-246.
Document(out) ==
    Preamble \o Sections(out, PreferredCats(out)) \o Sections(out, OtherCats(out))

\* Lines 212-248, run when the loop has gone through the whole worklist.
Assemble ==
    /\ pc = "loop"
    /\ i = Len(practical)
    /\ md' = Document(output_by_cat)
    /\ stdout' = Append(stdout, Join(md', "\n"))
    /\ exit_code' = 0
    /\ pc' = "done"
    /\ UNCHANGED <<argv, env, listResp, server, site_url, username, password,
                   requests, widgets, practical, i, output_by_cat, stderr, call, ret>>

-----------------------------------------------------------------------------
(* The environment of a run: command line, environment variables and the   *)
(* answers of the remote API.                                              *)

SCRIPT == "generate-widget-reference.py"

ArgvChoices ==
    { <<SCRIPT>>,
      <<SCRIPT, "https://example.com">>,
      <<SCRIPT, "https://example.com", "admin", "xxxx xxxx">>,
      <<SCRIPT, "https://example.com", "admin", "xxxx xxxx", "extra">> }

EnvVars == {"WORDPRESS_API_URL", "WORDPRESS_USERNAME", "WORDPRESS_PASSWORD",
            "WORDPRESS_APP_PASSWORD"}

EnvValues(v) ==
    IF v = "WORDPRESS_API_URL" THEN {"", "https://wp.example.org/"}
    ELSE IF v = "WORDPRESS_USERNAME" THEN {"editor"}
    ELSE IF v = "WORDPRESS_PASSWORD" THEN {"pw"}
    ELSE {"app pw"}

EnvChoices ==
    UNION { {e \in [S -> UNION {EnvValues(v) : v \in EnvVars}] :
                \A v \in S : e[v] \in EnvValues(v)} : S \in SUBSET EnvVars }

NoEnv == [v \in {} |-> ""]

\* The identifiers a list response is made of.
WidgetNames == {"common-base", "common", "common-optimized", "inner-section", "e-component",
                "wp-widget-text", "wp-widget", "commons", "heading"}

\* The category lists of a widget detail: "absent" for a detail without
\* the key.
CategoryChoices ==
    { [has |-> FALSE],
      [has |-> TRUE, cats |-> <<>>],
      [has |-> TRUE, cats |-> <<"pro-elements">>],
      [has |-> TRUE, cats |-> <<"link-in-bio", "basic">>],
      [has |-> TRUE, cats |-> <<"alpha", "pro-elements">>] }

\* A widget detail with one content-tab text control; with broken, a
\* further control whose descriptor is no object.
SampleControls(broken) ==
    << [key |-> "section_title", ctrl |-> [type |-> "section", label |-> "Title", tab |-> "content"]],
       [key |-> "title", ctrl |-> [type |-> "text", section |-> "section_title"]] >>
    \o (IF broken THEN <<[key |-> "link", ctrl |-> JsonArray]>> ELSE <<>>)

SampleDetail(c, broken) ==
    IF c.has
    THEN [title |-> "Title", keywords |-> <<"kw">>, controls |-> SampleControls(broken),
          categories |-> c.cats]
    ELSE [title |-> "Title", keywords |-> <<"kw">>, controls |-> SampleControls(broken)]

\* The answers to a detail request.
DetailResponses ==
    { [kind |-> "neterr"], [kind |-> "badjson"], [kind |-> "json", detail |-> JsonArray] }
    \cup { [kind |-> "json", detail |-> SampleDetail(c, b)] :
             c \in CategoryChoices, b \in BOOLEAN }

HealthyResponse == [kind |-> "json", detail |-> SampleDetail([has |-> TRUE, cats |-> <<"basic">>], FALSE)]

\* The identifiers that are requested: the answers to the others, which
\* the script never asks for, do not vary.
Requested(names) ==
    {n \in names : n \notin skip_names /\ ~StartsWith(n, "wp-widget-")}

ServerChoices(names) ==
    { [n \in names |-> IF n \in Requested(names) THEN g[n] ELSE HealthyResponse] :
        g \in [Requested(names) -> DetailResponses] }

\* The answers to the list request: a failure, or the identifiers of a set
\* of at most n widgets in the mapping's order (here descending).
ListFailures == { [kind |-> "neterr"], [kind |-> "badjson"], [kind |-> "nokey"] }

ListChoices(n) ==
    ListFailures \cup
    { [kind |-> "ok", widgets |-> Reverse(SetToSortedSeq(S))] :
        S \in SmallSubsets(WidgetNames, n) }

ListedNames(resp) == IF resp.kind = "ok" THEN Range(resp.widgets) ELSE {}

\* Whether the script goes on to the list request (lines 15 and 17).
Proceeds(a, e) == Len(a) = 4 \/ EnvGet(e, "WORDPRESS_API_URL", "") # ""

\* The variables the script has not assigned yet.
Unassigned ==
    /\ site_url = ""
    /\ username = ""
    /\ password = ""
    /\ requests = <<>>
    /\ widgets = <<>>
    /\ practical = <<>>
    /\ i = 0
    /\ output_by_cat = <<>>
    /\ stderr = <<>>
    /\ md = <<>>
    /\ stdout = <<>>
    /\ exit_code = -1

InitRun(argvs, envs, lists) ==
    /\ pc = "resolve"
    /\ argv \in argvs
    /\ env \in envs
    /\ listResp \in lists
    /\ Proceeds(argv, env) \/ listResp = [kind |-> "neterr"]
    /\ server \in ServerChoices(ListedNames(listResp))
    /\ Unassigned
    /\ call = [f |-> "none"]
    /\ ret = <<>>

Init ==
    InitRun({ <<SCRIPT>>, <<SCRIPT, "https://example.com/", "admin", "xxxx xxxx">> },
            {NoEnv}, ListChoices(MaxWidgets))

Next == Resolve \/ ListWidgets \/ BuildWorklist \/ FetchWidget \/ Assemble

Spec == Init /\ [][Next]_vars

\* Every credential source, with short list responses.
InitCred == InitRun(ArgvChoices, EnvChoices, ListChoices(MaxCredWidgets))

SpecCred == InitCred /\ [][Next]_vars

\* Long worklists, for the progress lines: BigList widgets, of which at
\* most MaxFaulty fail.
BigNames == {"w" \o Str(100 + k) : k \in 1..BigList}

InitProgress ==
    /\ pc = "resolve"
    /\ argv = <<SCRIPT, "https://example.com/", "admin", "xxxx xxxx">>
    /\ env = NoEnv
    /\ listResp = [kind |-> "ok", widgets |-> Reverse(SetToSortedSeq(BigNames))]
    /\ \E F \in SmallSubsets(BigNames, MaxFaulty) :
          server = [n \in BigNames |-> IF n \in F THEN [kind |-> "neterr"] ELSE HealthyResponse]
    /\ Unassigned
    /\ call = [f |-> "none"]
    /\ ret = <<>>

SpecProgress == InitProgress /\ [][Next]_vars

-----------------------------------------------------------------------------
(* The pure functions, applied to inputs drawn from bounded sets.          *)

\* The state of a run that has not started.
Idle ==
    /\ argv = <<SCRIPT>>
    /\ env = NoEnv
    /\ listResp = [kind |-> "neterr"]
    /\ server = [n \in {} |-> HealthyResponse]
    /\ Unassigned

Tokens == {"title", "hover", "_type", "_typography", "_video_link", "_blur", "css_filter",
           "_tablet", "_font_size", "_image", "background_image"}

RECURSIVE KeysOfLength(_)
KeysOfLength(n) ==
    IF n = 0 THEN {""}
    ELSE {k \o t : k \in KeysOfLength(n - 1), t \in Tokens}

\* The control keys given to should_skip: 1 to MaxTokens tokens.
Keys == UNION {KeysOfLength(n) : n \in 1..MaxTokens}

InitSkip ==
    /\ pc = "call"
    /\ call \in {[f |-> "should_skip", key |-> k, ctrl |-> c] :
                    k \in Keys, c \in {[type |-> "text"], [type |-> "section"], [label |-> "L"]}}
    /\ ret = <<>>
    /\ Idle

CallShouldSkip ==
    /\ pc = "call"
    /\ call.f = "should_skip"
    /\ ret' = <<ShouldSkip(call.key, call.ctrl)>>
    /\ pc' = "returned"
    /\ UNCHANGED <<call, pipelineVars>>

SpecSkip == InitSkip /\ [][CallShouldSkip]_vars

\* Option mappings: n keys o1..on, alone or with an empty key in front or
\* at the end.
OptionKeys(n) == [k \in 1..n |-> "o" \o Str(k)]

OptionChoices ==
    { [list |-> <<"a", "b">>] }
    \cup { [keys |-> OptionKeys(n)] : n \in 0..(MaxOptions) }
    \cup { [keys |-> <<"">> \o OptionKeys(n)] : n \in 0..(MaxOptions) }
    \cup { [keys |-> OptionKeys(n) \o <<"">>] : n \in 0..(MaxOptions) }

DefaultChoices ==
    { [str |-> ""], [str |-> "Click here"], [str |-> "012345678901234567890123456789"],
      [dict |-> [size |-> 10, unit |-> "px"]], [dict |-> [size |-> 0, unit |-> "px"]],
      [dict |-> [size |-> 5]], [dict |-> [unit |-> "em"]] }

ControlTypes == {"select", "choose", "repeater", "switcher", "color", "slider", "dimensions",
                 "text", "number", "custom"}

ControlChoices ==
    LET typed == {[type |-> t] : t \in ControlTypes} \cup {[label |-> "L"]}
        withOptions == typed \cup {c @@ [options |-> o] : c \in typed, o \in OptionChoices}
    IN withOptions \cup {c @@ [default |-> d] : c \in withOptions, d \in DefaultChoices}

InitControl ==
    /\ pc = "call"
    /\ call \in {[f |-> "format_control", key |-> "k", ctrl |-> c] : c \in ControlChoices}
    /\ ret = <<>>
    /\ Idle

CallFormatControl ==
    /\ pc = "call"
    /\ call.f = "format_control"
    /\ ret' = <<FormatControl(call.key, call.ctrl)>>
    /\ pc' = "returned"
    /\ UNCHANGED <<call, pipelineVars>>

SpecControl == InitControl /\ [][CallFormatControl]_vars

\* The controls a widget detail given to format_widget is made of.
ControlUniverse ==
    { [key |-> "section_content", ctrl |-> [type |-> "section", label |-> "Content", tab |-> "content"]],
      [key |-> "section_style", ctrl |-> [type |-> "section", label |-> "Style", tab |-> "style"]],
      [key |-> "section_adv", ctrl |-> [type |-> "section", label |-> "Advanced", tab |-> "advanced"]],
      [key |-> "section_layout", ctrl |-> [type |-> "section", label |-> "Layout", tab |-> "layout"]],
      [key |-> "title", ctrl |-> [type |-> "text", section |-> "section_content"]],
      [key |-> "color", ctrl |-> [type |-> "color", section |-> "section_style"]],
      [key |-> "margin", ctrl |-> [type |-> "dimensions", section |-> "section_adv"]],
      [key |-> "gap", ctrl |-> [type |-> "slider", section |-> "section_layout"]],
      [key |-> "align", ctrl |-> [type |-> "choose", tab |-> "style", section |-> "section_content"]],
      [key |-> "orphan", ctrl |-> [type |-> "text"]],
      [key |-> "first", ctrl |-> [type |-> "text", tab |-> "content", section |-> "a|b"]],
      [key |-> "second", ctrl |-> [type |-> "text", tab |-> "content|a", section |-> "b"]],
      [key |-> "_margin", ctrl |-> [type |-> "text", section |-> "section_content"]] }

RECURSIVE ControlLists(_)
\* The ordered mappings of n controls with distinct keys.
ControlLists(n) ==
    IF n = 0 THEN {<<>>}
    ELSE {Append(cs, c) : cs \in ControlLists(n - 1),
                          c \in ControlUniverse} 

DistinctKeys(cs) == \A a, b \in 1..Len(cs) : a # b => cs[a].key # cs[b].key

DetailChoices ==
    UNION { { [controls |-> cs], [title |-> "Title", keywords |-> <<"a", "b">>, controls |-> cs] } :
              cs \in {x \in UNION {ControlLists(n) : n \in 0..MaxControls} : DistinctKeys(x)} }

InitWidget ==
    /\ pc = "call"
    /\ call \in {[f |-> "format_widget", name |-> "w", detail |-> d] : d \in DetailChoices}
    /\ ret = <<>>
    /\ Idle

CallFormatWidget ==
    /\ pc = "call"
    /\ call.f = "format_widget"
    /\ ret' = <<FormatWidget(call.name, call.detail)>>
    /\ pc' = "returned"
    /\ UNCHANGED <<call, pipelineVars>>

SpecWidget == InitWidget /\ [][CallFormatWidget]_vars

-----------------------------------------------------------------------------
(* Reading the run's output.                                               *)

\* The entries of md after the preamble that are category headings.
CatHeadingIdx == {k \in (Len(Preamble) + 1)..Len(md) : StartsWith(md[k], "## ")}

HeadingCat(k) == SubSeq(md[k], 4, Len(md[k]))

IsBlock(b) == StartsWith(b, "### " \o BT)

\* The identifier in a widget block's heading, between the two backticks.
BlockName(b) ==
    LET close == CHOOSE j \in 6..Len(b) :
                    /\ SubSeq(b, j, j) = BT
                    /\ \A m \in 6..(j - 1) : SubSeq(b, m, m) # BT
    IN SubSeq(b, 6, close - 1)

\* The entries of md that are widget blocks.
BlockIdx == {k \in (Len(Preamble) + 1)..Len(md) : IsBlock(md[k])}

DocHasBlock(n) == \E k \in BlockIdx : BlockName(md[k]) = n

SkipLines(n) == {k \in 1..Len(stderr) : StartsWith(stderr[k], "  SKIP " \o n \o ": ")}

DetailRequests(n) == {k \in 1..Len(requests) : requests[k].url = Base \o "/" \o n}

\* The widget's detail processing goes through: the request is answered
\* with a JSON object all of whose control descriptors are objects.
Succeeds(n) ==
    /\ server[n].kind = "json"
    /\ "isarray" \notin DOMAIN server[n].detail
    /\ \A k \in 1..Len(server[n].detail.controls) :
          "isarray" \notin DOMAIN server[n].detail.controls[k].ctrl

\* The category a widget belongs to: the first entry of its category list,
\* uncategorized when the list is absent or empty.
ExpectedCat(n) ==
    LET d == server[n].detail
    IN IF "categories" \in DOMAIN d /\ d.categories # <<>> THEN Head(d.categories)
       ELSE "uncategorized"

-----------------------------------------------------------------------------
(* C1.  Credential resolution.                                             *)

EnvSet(v) == v \in DOMAIN env /\ env[v] # ""

\* One of the two sources is complete: exactly three positional arguments,
\* or the URL, the username and a password all set in the environment.
SourceComplete ==
    \/ Len(argv) = 4
    \/ /\ EnvSet("WORDPRESS_API_URL")
       /\ EnvSet("WORDPRESS_USERNAME")
       /\ EnvSet("WORDPRESS_PASSWORD") \/ EnvSet("WORDPRESS_APP_PASSWORD")

\* C1: whenever neither credential source is complete, the program issues
\* no HTTP request, and once past the resolution it has written the usage
\* message to stderr and exited with code 1.
C1_IncompleteSourceExits ==
    ~SourceComplete =>
        /\ requests = <<>>
        /\ pc # "resolve" => pc = "exited" /\ exit_code = 1 /\ stderr = USAGE

-----------------------------------------------------------------------------
(* C2.  Per-widget failure isolation.                                      *)

\* C2: when the run is done, every failing widget of the worklist has a
\* SKIP line on stderr and no block in the document, every widget of the
\* worklist was requested, and every category heading of the document is
\* the category of a widget that succeeded: a failing widget adds nothing
\* that would be absent had it not been in the worklist.
C2_FailureContributesNothing ==
    pc = "done" =>
        /\ \A n \in Range(practical) :
              /\ DetailRequests(n) # {}
              /\ ~Succeeds(n) => SkipLines(n) # {} /\ ~DocHasBlock(n)
        /\ \A k \in CatHeadingIdx :
              \E n \in Range(practical) : Succeeds(n) /\ ExpectedCat(n) = HeadingCat(k)

-----------------------------------------------------------------------------
(* C3.  Pre-fetch exclusion.                                               *)

ExactExclusions == {"common-base", "common", "common-optimized", "inner-section", "e-component"}

Excluded(n) == n \in ExactExclusions \/ (Len(n) >= 10 /\ SubSeq(n, 1, 10) = "wp-widget-")

\* C3: once the worklist is built, an identifier of the list response is in
\* it exactly when it is neither in the exact-name exclusion set nor
\* starts with wp-widget-; no detail request is ever issued for an
\* excluded identifier and the document has no block for it.
C3_PreFetchExclusion ==
    /\ pc \in {"loop", "done"} =>
          \A n \in Range(widgets) : (n \in Range(practical)) <=> ~Excluded(n)
    /\ \A n \in Range(widgets) : Excluded(n) => DetailRequests(n) = {} /\ ~DocHasBlock(n)

\* A finished run whose list response held an exactly excluded identifier,
\* a prefix-excluded one and a kept one, the last with a block in the
\* document.
C3_Witness ==
    /\ pc = "done"
    /\ Range(widgets) = {"common-base", "wp-widget-text", "heading"}
    /\ DocHasBlock("heading")
    /\ DetailRequests("heading") # {}

-----------------------------------------------------------------------------
(* C4.  Category ordering.                                                 *)

PreferredOrder == <<"basic", "general", "pro-elements", "theme-elements",
                    "theme-elements-single", "theme-elements-archive", "link-in-bio">>

Preferred(c) == \E k \in 1..Len(PreferredOrder) : PreferredOrder[k] = c

PreferredPos(c) == CHOOSE k \in 1..Len(PreferredOrder) : PreferredOrder[k] = c

\* C4: in the finished document, of any two category headings the earlier
\* one is a preferred category placed earlier in the preferred list, or a
\* preferred category before a non-preferred one, or the lexicographically
\* smaller of two non-preferred ones; and every category that received a
\* widget has exactly one heading.
C4_CategoryOrder ==
    pc = "done" =>
        /\ \A a, b \in CatHeadingIdx :
              a < b =>
                 LET ca == HeadingCat(a)
                     cb == HeadingCat(b)
                 IN IF Preferred(ca)
                    THEN Preferred(cb) => PreferredPos(ca) < PreferredPos(cb)
                    ELSE ~Preferred(cb) /\ StrLess(ca, cb)
        /\ \A g \in 1..Len(output_by_cat) :
              output_by_cat[g].blocks # <<>> =>
                 Cardinality({k \in CatHeadingIdx : HeadingCat(k) = output_by_cat[g].cat}) = 1

\* A finished document with two preferred categories whose list order is
\* not their lexicographic order, followed by a non-preferred one that
\* sorts before both, each with a widget.
C4_Witness ==
    /\ pc = "done"
    /\ Cardinality(CatHeadingIdx) = 3
    /\ \E a, b, c \in CatHeadingIdx :
          /\ a < b /\ b < c
          /\ HeadingCat(a) = "pro-elements"
          /\ HeadingCat(b) = "link-in-bio"
          /\ HeadingCat(c) = "alpha"
    /\ \A g \in 1..Len(output_by_cat) : output_by_cat[g].blocks # <<>>

-----------------------------------------------------------------------------
(* C5.  Widget order within a category.                                    *)

SameSection(a, b) == ~\E h \in CatHeadingIdx : a < h /\ h < b

\* C5: in the finished document, of two widget blocks of the same category
\* section the earlier one has the lexicographically smaller identifier.
C5_WidgetOrder ==
    pc = "done" =>
        \A a, b \in BlockIdx :
            (a < b /\ SameSection(a, b)) => StrLess(BlockName(md[a]), BlockName(md[b]))

\* A finished document with two blocks in one section, from a list
\* response that gave the identifiers in another order, with a skipped
\* widget in the same run.
C5_Witness ==
    /\ pc = "done"
    /\ \E a, b \in BlockIdx : a < b /\ SameSection(a, b)
    /\ \E n \in Range(practical) : SkipLines(n) # {}
    /\ practical # SortedStrings(practical)

-----------------------------------------------------------------------------
(* C6.  The carve-out of should_skip.                                      *)

\* Rules a to d of the chain catch the control.
CaughtEarly(key, ctrl) ==
    \/ SubSeq(key, 1, 1) = "_"
    \/ ("type" \in DOMAIN ctrl /\ ctrl.type \in SKIP_TYPES)
    \/ \E s \in Range(SKIP_SUFFIXES) : EndsWith(key, s)
    \/ key \in SKIP_EXACT

HasSubPropertyPattern(key) == \E q \in Range(SKIP_CONTAINS) : Contains(key, q)

IsToggleKey(key) == EndsWith(key, "_typography") \/ EndsWith(key, "_type")

\* C6: for a key that rules a to d do not catch and that contains a
\* SKIP_CONTAINS pattern, should_skip returns false when the key ends with
\* _typography or _type and true otherwise, whatever the hover and
\* css_filter rules would say of the key.
C6_CarveOut ==
    ( /\ pc = "returned"
      /\ call.f = "should_skip"
      /\ ~CaughtEarly(call.key, call.ctrl)
      /\ HasSubPropertyPattern(call.key) )
        => ret = <<~IsToggleKey(call.key)>>

\* should_skip has kept a toggle key that contains a SKIP_CONTAINS pattern
\* and that the hover rule matches.
C6_Witness ==
    /\ pc = "returned"
    /\ call.f = "should_skip"
    /\ call.key = "hover_video_link_type"
    /\ call.ctrl = [type |-> "text"]
    /\ Contains(call.key, "hover_") /\ Contains(call.key, "_video")
    /\ ret = <<FALSE>>

-----------------------------------------------------------------------------
(* C7.  The option keys of a select control.                               *)

IsSelectWithMapping ==
    /\ pc = "returned"
    /\ call.f = "format_control"
    /\ "type" \in DOMAIN call.ctrl
    /\ call.ctrl.type = "select"
    /\ "options" \in DOMAIN call.ctrl
    /\ "keys" \in DOMAIN call.ctrl.options

\* The keys of the options mapping that are not the empty string.
ShownKeys ==
    LET ks == call.ctrl.options.keys
    IN SelectSeq(ks, LAMBDA k : Len(k) > 0)

Listing(ks) == " (" \o Join(ks, ", ") \o ")"

\* C7 as stated: a select control with a mapping of one or more option
\* keys, none of them empty, shows the first 5 keys at most, and with more
\* than 5 keys the suffix +N for the N keys left out.
C7_TruncatesAbove5 ==
    (IsSelectWithMapping /\ ShownKeys = call.ctrl.options.keys /\ Len(ShownKeys) >= 1) =>
        LET n == Len(ShownKeys)
        IN ret = << BT \o call.key \o BT \o
                    (IF n <= 5 THEN Listing(ShownKeys)
                     ELSE Listing(SubSeq(ShownKeys, 1, 5) \o <<"+" \o Str(n - 5)>>)) >>

\* C7 amended: with n non-empty option keys, all of them are shown when
\* n <= 6; with n > 6 the first 5 are shown followed by +(n - 5).  Empty
\* keys are neither shown nor counted; with no non-empty key no key is
\* shown.
C7_TruncatesAbove6 ==
    IsSelectWithMapping =>
        LET n == Len(ShownKeys)
            bare == BT \o call.key \o BT
        IN IF n = 0
           THEN ret = <<bare \o (IF Len(call.ctrl.options.keys) = 0 THEN " (select)" ELSE "")>>
           ELSE IF n <= 6
           THEN ret = <<bare \o Listing(ShownKeys)>>
           ELSE ret = <<bare \o Listing(SubSeq(ShownKeys, 1, 5) \o <<"+" \o Str(n - 5)>>)>>

\* format_control has formatted a select control with 8 option keys as the
\* first 5 followed by +3.
C7_Witness ==
    /\ IsSelectWithMapping
    /\ call.ctrl.options.keys = <<"o1", "o2", "o3", "o4", "o5", "o6", "o7", "o8">>
    /\ ret = <<BT \o "k" \o BT \o " (o1, o2, o3, o4, o5, +3)">>

-----------------------------------------------------------------------------
(* C8.  Tab filtering and ordering in format_widget.                       *)

\* The tab a control belongs to: its own tab, else the tab its section's
\* header declares, else content.
EffectiveTab(cs, c) ==
    IF "tab" \in DOMAIN c THEN c.tab
    ELSE LET sec == IF "section" \in DOMAIN c THEN c.section ELSE "other"
             hdr == {k \in 1..Len(cs) : /\ cs[k].key = sec
                                        /\ "type" \in DOMAIN cs[k].ctrl
                                        /\ cs[k].ctrl.type = "section"}
         IN IF hdr = {} THEN "content"
            ELSE LET h == cs[CHOOSE k \in hdr : TRUE].ctrl
                 IN IF "tab" \in DOMAIN h THEN h.tab ELSE "content"

Occurrences(text, q) == {k \in 1..(Len(text) - Len(q) + 1) : SubSeq(text, k, k + Len(q) - 1) = q}

\* The fragment that lists the control of key k.
Fragment(k) == BT \o k \o BT \o " ("

SectionName(c) == IF "section" \in DOMAIN c THEN c.section ELSE "other"

\* Control k is listed and is the first listed control of its group.
FirstOfGroup(cs, text, k) ==
    /\ Contains(text, Fragment(cs[k].key))
    /\ \A m \in 1..(k - 1) :
          Contains(text, Fragment(cs[m].key)) =>
             \/ EffectiveTab(cs, cs[m].ctrl) # EffectiveTab(cs, cs[k].ctrl)
             \/ SectionName(cs[m].ctrl) # SectionName(cs[k].ctrl)

\* C8: in the block format_widget returns, a control is listed in a bullet
\* line only when its effective tab is content or style, every content
\* bullet line precedes every style bullet line, within a tab the groups
\* come in the order of their first control, and a widget whose controls
\* are all in the advanced tab has no bullet line.
C8_OnlyContentAndStyle ==
    (pc = "returned" /\ call.f = "format_widget" /\ ret[1].ok) =>
        LET cs == call.detail.controls
            text == ret[1].text
        IN /\ \A k \in 1..Len(cs) :
                 Contains(text, Fragment(cs[k].key))
                    => (EffectiveTab(cs, cs[k].ctrl) \in {"content", "style"})
           /\ \A a \in Occurrences(text, "** (style): "), b \in Occurrences(text, "** (content): ") :
                 b < a
           /\ \A a, b \in 1..Len(cs) :
                 ( /\ a < b
                   /\ FirstOfGroup(cs, text, a)
                   /\ FirstOfGroup(cs, text, b)
                   /\ EffectiveTab(cs, cs[a].ctrl) = EffectiveTab(cs, cs[b].ctrl) )
                 => \A x \in Occurrences(text, Fragment(cs[a].key)),
                       y \in Occurrences(text, Fragment(cs[b].key)) : x < y
           /\ (\A k \in 1..Len(cs) : EffectiveTab(cs, cs[k].ctrl) = "advanced")
                 => ~Contains(text, "\n- ")

-----
(* C9.  Progress lines.                                                    *)

\* The progress line after n of total detail fetches.
ProgressLine(n, total) == "  " \o Str(n) \o "/" \o Str(total) \o "..."

IsProgressLine(line) == EndsWith(line, "...") /\ ~StartsWith(line, "Fetching ")

\* C9: at every point of the detail fetch loop, stderr holds exactly one
\* progress line for each multiple of 20 that the count of completed
\* detail fetches has reached, in order, each reporting that count.
C9_ProgressEvery20 ==
    pc \in {"loop", "done"} =>
        SelectSeq(stderr, IsProgressLine)
            = [k \in 1..(i \div 20) |-> ProgressLine(20 * k, Len(practical))]

-----------------------------------------------------------------------------
(* C10.  The partition of the worklist.                                    *)

\* The blocks for widget n in the buckets: pairs of bucket and position.
BlocksOf(n) ==
    UNION { { <<g, b>> : b \in {x \in 1..Len(output_by_cat[g].blocks) :
                                   BlockName(output_by_cat[g].blocks[x]) = n} } :
            g \in 1..Len(output_by_cat) }

\* C10: each widget of the worklist is requested once when its turn has
\* come and not before; when the loop has ended each one has either
\* exactly one block, in the bucket of its category, and no SKIP line, or
\* exactly one SKIP line and no block; the document holds exactly the
\* blocks of the buckets, none twice, and is written to stdout once, only
\* after every widget was attempted.
C10_Partition ==
    /\ pc \in {"loop", "done"} =>
          \A k \in 1..Len(practical) :
              Cardinality(DetailRequests(SortedStrings(practical)[k])) = (IF k <= i THEN 1 ELSE 0)
    /\ (pc = "loop" /\ i = Len(practical)) \/ pc = "done" =>
          \A n \in Range(practical) :
              \/ /\ Cardinality(BlocksOf(n)) = 1
                 /\ \A p \in BlocksOf(n) : output_by_cat[p[1]].cat = ExpectedCat(n)
                 /\ SkipLines(n) = {}
              \/ /\ BlocksOf(n) = {}
                 /\ Cardinality(SkipLines(n)) = 1
    /\ pc = "done" =>
          \A n \in Range(practical) :
              Cardinality({k \in BlockIdx : BlockName(md[k]) = n}) = Cardinality(BlocksOf(n))
    /\ stdout # <<>> =>
          /\ pc = "done"
          /\ stdout = <<Join(md, "\n")>>
          /\ \A n \in Range(practical) : DetailRequests(n) # {}

\* A finished run with a widget that has its block in the bucket of the
\* first of its two categories, a widget without a category list in
\* uncategorized, and a skipped widget.
C10_Witness ==
    /\ pc = "done"
    /\ stdout # <<>>
    /\ \E n \in Range(practical) :
          /\ Succeeds(n)
          /\ "categories" \in DOMAIN server[n].detail
          /\ server[n].detail.categories = <<"link-in-bio", "basic">>
          /\ \E p \in BlocksOf(n) : output_by_cat[p[1]].cat = "link-in-bio"
    /\ \E n \in Range(practical) :
          /\ Succeeds(n)
          /\ "categories" \notin DOMAIN server[n].detail
          /\ \E p \in BlocksOf(n) : output_by_cat[p[1]].cat = "uncategorized"
    /\ \E n \in Range(practical) : ~Succeeds(n) /\ SkipLines(n) # {}

====
